---- MODULE Spec2Model ----
(***************************************************************************)
(* Model of user/scripts/wave_tray_ys4i.py: build_wave_tray and            *)
(* build_concentric_fill.                                                  *)
(*                                                                         *)
(* The lengths of the Parameters are integers counting hundredths of a     *)
(* millimetre (the defaults 15.3 mm, 0.2 mm, 1.0 mm are 1530, 20, 100).    *)
(* The sigmoid and the sine are computed in fixed point with Scale = 10^8  *)
(* units to 1, by their series, to within a few units.  Radii (the wave    *)
(* radius, the inner and outer radius, the ring radii) count Base-ths of   *)
(* the length unit, 10^-6 mm; the minimum wave radius of a layer is within *)
(* MinTolerance of the code's.                                             *)
(*                                                                         *)
(* quotient_err[i] is the sign of the difference between the double        *)
(* (outer_radius - inner_radius) / pitch of layer i and the whole number   *)
(* nearest to it.  Where the width of the model is farther than            *)
(* MinTolerance from every whole number of pitches the sign decides        *)
(* nothing and is kept 0.  Elsewhere the accuracy of the minimum and the   *)
(* IEEE-754 roundings of the quotient, which the model does not compute,   *)
(* decide it: it is an input of the model, fixed for the lifetime of the   *)
(* Parameters (numpy is deterministic).                                    *)
(***************************************************************************)
EXTENDS Integers, Sequences, FiniteSets

VARIABLES params, quotient_err, pc, layer_index, tray_paths, calls, results

vars == <<params, quotient_err, pc, layer_index, tray_paths, calls, results>>

(* ------------------------------ bounds -------------------------------- *)
MaxLayers == 2
MaxCalls == 2
SmallBaseRadius == 60
SmallSampleCount == 3

(* ------------------ WaveTrayParams defaults (0.01 mm) ------------------ *)
DefaultLayerHeight == 100
DefaultBaseRadius == 2000
DefaultRadialGrowth == 500
DefaultWaveAmplitude == 200
\* wave_frequency = 100.5, kept as the whole number of half cycles
DefaultWaveFrequency == 201
DefaultWaveSampleCount == 403
DefaultHoleSampleCount == 200
DefaultHoleRadius == 1530
DefaultHoleLayerLimit == 2
DefaultHoleOffset == 40
DefaultConcentricPitch == 100
DefaultConcentricClearance == 20

WaveTrayParams(lc, hl) ==
    [layer_count |-> lc,
     layer_height_mm |-> DefaultLayerHeight,
     base_radius_mm |-> DefaultBaseRadius,
     radial_growth_mm |-> DefaultRadialGrowth,
     wave_amplitude_mm |-> DefaultWaveAmplitude,
     wave_frequency |-> DefaultWaveFrequency,
     wave_sample_count |-> DefaultWaveSampleCount,
     hole_sample_count |-> DefaultHoleSampleCount,
     hole_radius_mm |-> DefaultHoleRadius,
     hole_layer_limit |-> hl,
     hole_offset_mm |-> DefaultHoleOffset,
     concentric_pitch_mm |-> DefaultConcentricPitch,
     concentric_clearance_mm |-> DefaultConcentricClearance]

(* Parameter sets the model explores: the defaults with a bounded layer    *)
(* count, and a grid of small values around every boundary of the code.    *)
DefaultParamSets ==
    {WaveTrayParams(lc, hl) : lc \in 1..MaxLayers, hl \in {1, DefaultHoleLayerLimit}}

SmallParamSets ==
    [layer_count : -1..MaxLayers,
     layer_height_mm : {10},
     base_radius_mm : {SmallBaseRadius},
     radial_growth_mm : {0, 40},
     wave_amplitude_mm : {0, 10},
     wave_frequency : {DefaultWaveFrequency},
     wave_sample_count : {-1, SmallSampleCount},
     hole_sample_count : {-1, SmallSampleCount},
     hole_radius_mm : {10, 20, 40, SmallBaseRadius},
     hole_layer_limit : 0..(MaxLayers + 1),
     hole_offset_mm : {10},
     concentric_pitch_mm : {10, 20},
     concentric_clearance_mm : {10}]

\* Parameters whose annulus is np.arange(1.0, 1.3, 0.1): inner_radius =
\* 0.8 + 0.2, outer_radius = 1.5 - 0.2, pitch 0.1
ArangeOvershootParams ==
    [layer_count |-> 1,
     layer_height_mm |-> 10,
     base_radius_mm |-> 150,
     radial_growth_mm |-> 0,
     wave_amplitude_mm |-> 0,
     wave_frequency |-> DefaultWaveFrequency,
     wave_sample_count |-> SmallSampleCount,
     hole_sample_count |-> SmallSampleCount,
     hole_radius_mm |-> 80,
     hole_layer_limit |-> 1,
     hole_offset_mm |-> 10,
     concentric_pitch_mm |-> 10,
     concentric_clearance_mm |-> 20]

ParamSets == DefaultParamSets \cup SmallParamSets \cup {ArangeOvershootParams}

(* ------------------------------ helpers -------------------------------- *)
None == [kind |-> "None"]

Min(a, b) == IF a < b THEN a ELSE b

Max(a, b) == IF a > b THEN a ELSE b

\* math.ceil(a / b) for b > 0
Ceil(a, b) == -((-a) \div b)

\* range(n): the indices a for-loop over range(n) visits, in order
Range(n) == 0..(n - 1)

\* The layers on which line 113 evaluates wave_radius.min()
HoleLayers(p) == Range(Min(p.layer_count, p.hole_layer_limit))

(* -------------------- fixed-point sigmoid and sine --------------------- *)
\* Fixed-point values count Scale = Base^2 units to 1; a value is split into
\* its two Base digits wherever a product would not fit the integers
Base == 10000

Scale == Base * Base

\* np.pi in fixed point
PiScaled == 314159265

\* exp(-1) in fixed point
ExpMinusOne == 36787944

\* Terms of the exponential series kept (0 <= x < 1: the rest is below
\* 1/Scale)
ExpTerms == 12

\* Terms of the sine series kept after the first (0 <= x <= pi/2: the rest is
\* below 1/Scale)
SinTerms == 7

\* The element of a one-element set.  In Only({f(v) : v \in {e}}) the
\* argument e is computed once, however often f uses v.
Only(S) == CHOOSE r \in S : TRUE

\* a / b rounded to the nearest integer, for b > 0
RoundDiv(a, b) == (2 * a + b) \div (2 * b)

\* u * v / Scale rounded to the nearest integer, for 0 <= u, v < 10 * Scale,
\* by the Base digits of u and v
MulSplit(u, v) ==
    (u \div Base) * (v \div Base)
    + ((u \div Base) * (v % Base) + (u % Base) * (v \div Base)
       + ((u % Base) * (v % Base) + Scale \div 2) \div Base) \div Base

\* The product of two fixed-point values
MulS(a, b) == Only({MulSplit(u, v) : u \in {a}, v \in {b}})

\* Long division: q followed by the decimal digits of r / b, one digit for
\* every factor 10 of w; LongDiv(0, r, b, Scale) is the fixed-point r / b
\* rounded down, for 0 <= r <= b <= 2 * Scale
RECURSIVE LongDiv(_, _, _, _)
LongDiv(q, r, b, w) ==
    IF w = 1
    THEN q
    ELSE Only({LongDiv(q * 10 + t \div b, t % b, b, w \div 10) :
                   t \in {r * 10}})

\* 1 - x/n * (1 - x/(n+1) * (1 - ...)): the series of exp(-x) from term n,
\* for 0 <= x < Scale
RECURSIVE ExpNegSeries(_, _)
ExpNegSeries(x, n) ==
    IF n > ExpTerms
    THEN Scale
    ELSE Scale - RoundDiv(MulS(x, ExpNegSeries(x, n + 1)), n)

\* exp(-n) for a natural number n
RECURSIVE ExpNegWhole(_)
ExpNegWhole(n) ==
    IF n = 0 THEN Scale ELSE MulS(ExpMinusOne, ExpNegWhole(n - 1))

\* np.exp(-x) on fixed-point x >= 0: exp(-whole part) * exp(-fraction)
np_exp_neg(x) ==
    Only({MulS(ExpNegWhole(v \div Scale), ExpNegSeries(v % Scale, 1)) :
              v \in {x}})

\* sigmoid(x) = 1.0 / (1.0 + np.exp(-x)) on fixed-point x; for x < 0 the
\* quotient is taken as exp(x) / (exp(x) + 1), which keeps exp below 1
sigmoid(x) ==
    Only({IF v >= 0
          THEN Only({LongDiv(0, Scale, Scale + e, Scale) :
                         e \in {np_exp_neg(v)}})
          ELSE Only({LongDiv(0, e, Scale + e, Scale) :
                         e \in {np_exp_neg(-v)}}) :
              v \in {x}})

\* 1 - t2/(2j(2j+1)) * (1 - t2/((2j+2)(2j+3)) * (1 - ...)): sin(x)/x from
\* term j, for t2 = x^2
RECURSIVE SinSeries(_, _)
SinSeries(t2, j) ==
    IF j > SinTerms
    THEN Scale
    ELSE Scale - RoundDiv(MulS(t2, SinSeries(t2, j + 1)), (2 * j) * (2 * j + 1))

\* np.sin(x) on fixed-point x, 0 <= x <= pi/2
SinAngle(x) ==
    Only({Only({MulS(v, SinSeries(t2, 1)) : t2 \in {MulS(v, v)}}) :
              v \in {x}})

\* np.sin(pi * a / b) for b > 0, reduced to the first quarter turn
RECURSIVE SinPi(_, _)
SinPi(a, b) ==
    LET r == a % (2 * b)
    IN  IF r = 0 \/ r = b THEN 0
        ELSE IF r > b THEN -SinPi(r - b, b)
        ELSE IF 2 * r = b THEN Scale
        ELSE IF 2 * r > b
             THEN SinAngle(MulS(PiScaled, LongDiv(0, b - r, b, Scale)))
             ELSE SinAngle(MulS(PiScaled, LongDiv(0, r, b, Scale)))

\* A length times a fixed-point value, in Base-ths of the length unit
MulLen(len, x) ==
    Only({len * (v \div Base) + RoundDiv(len * (v % Base), Base) : v \in {x}})

(* ------------------------- the wave radius ----------------------------- *)
\* Intervals between the samples of np.linspace(.., .., wave_sample_count)
SampleSteps(p) == Max(p.wave_sample_count - 1, 1)

\* normalized_height of sample k of layer i (lines 76-79), in fixed point:
\* layer_z / total_height_mm = (i + k/steps) / layer_count
NormalizedHeight(p, i, k) ==
    LongDiv(0, i * SampleSteps(p) + k, p.layer_count * SampleSteps(p), Scale)

\* wave_radius of sample k of layer i (lines 82-87), in Base-ths of the
\* length unit.  The phase wave_angles*wave_frequency + pi*i is
\* pi * (f*k + i*steps) / steps with f the frequency in half cycles.
WaveRadius(p, i, k) ==
    p.base_radius_mm * Base
    + MulLen(p.radial_growth_mm,
             sigmoid(6 * (NormalizedHeight(p, i, k) - Scale \div 2)))
    + MulLen(p.wave_amplitude_mm,
             SinPi(p.wave_frequency * k + i * SampleSteps(p), SampleSteps(p)))

\* min() of a non-empty array
ArrayMin(values) == CHOOSE m \in values : \A v \in values : m <= v

\* float(wave_radius.min()) of line 113, for wave_sample_count >= 1
WaveRadiusArrayMin(p, i) ==
    Only({ArrayMin(values) :
              values \in {{WaveRadius(p, i, k) : k \in Range(p.wave_sample_count)}}})

\* The distance, in Base-ths of the length unit, within which the minimum
\* of the model lies from float(wave_radius.min()) of the code, for a growth
\* and an amplitude up to the defaults
MinTolerance == 2

\* A length of the Parameters as a radius, in Base-ths of the length unit
Fine(len) == len * Base

(* ---------------- geometry collaborator (gcoordinator) ----------------- *)
\* gc.Path(x, y, z) of lines 88-92: the outer wall of layer i.  Its z is
\* np.linspace(layer_bottom, layer_top, wave_sample_count), which is
\* [layer_bottom] alone for a single sample.
\* array_min is the minimum of its wave_radius in Base-ths of the length unit.
WavePath(p, i, array_min) ==
    [kind |-> "wall",
     points |-> p.wave_sample_count,
     radius_min |-> array_min,
     z_bottom |-> i * p.layer_height_mm,
     z_top |-> IF p.wave_sample_count = 1
               THEN i * p.layer_height_mm
               ELSE (i + 1) * p.layer_height_mm]

\* gc.Path(x, y, z) of lines 100-104: the hole circle of layer i
HolePath(p, i) ==
    [kind |-> "hole",
     radius |-> p.hole_radius_mm,
     points |-> p.hole_sample_count,
     z |-> p.layer_height_mm * (i + 1)]

\* gc.Transform.offset(path, distance)
TransformOffset(path, distance) ==
    [kind |-> "offset", of |-> path, distance |-> distance]

\* gc.Path(radius*cos, radius*sin, z_coords) of line 54: one ring
RingPath(p, radius, z_height) ==
    [kind |-> "ring",
     radius |-> radius,
     points |-> p.hole_sample_count,
     z |-> z_height]

\* gc.PathList(paths)
PathList(paths) == [kind |-> "fill", paths |-> paths]

(* ------------------------ build_concentric_fill ------------------------ *)
\* The whole number of pitches nearest to a width
WholePitches(diff, pitch) == RoundDiv(diff, pitch)

\* The width is, to the accuracy of the model, a whole number >= 1 of
\* pitches: the double quotient diff / pitch of the code can lie on either
\* side of that number
OnWholePitches(diff, pitch) ==
    LET n == WholePitches(diff, pitch)
    IN  /\ n >= 1
        /\ diff - n * pitch <= MinTolerance
        /\ n * pitch - diff <= MinTolerance

\* The comparison  outer_radius - inner_radius <= pitch  of line 43: where
\* the width is one pitch to the accuracy of the model, the side of the
\* double quotient decides
FloatDiffLE(diff, pitch, err) ==
    IF OnWholePitches(diff, pitch) /\ WholePitches(diff, pitch) = 1
    THEN err <= 0
    ELSE diff <= pitch

\* len(np.arange(start, stop, step)) = ceil((stop - start) / step) in
\* doubles: on a whole number n of pitches it is n + 1 when the double
\* quotient lies above n, and n otherwise
ArangeLength(start, stop, step, err) ==
    LET diff == stop - start
        n == IF OnWholePitches(diff, step)
             THEN WholePitches(diff, step) + (IF err > 0 THEN 1 ELSE 0)
             ELSE Ceil(diff, step)
    IN  Max(n, 0)

\* np.arange(start, stop, step): start + k*step for k = 0 .. length-1
np_arange(start, stop, step, err) ==
    [k \in 1..ArangeLength(start, stop, step, err) |-> start + (k - 1) * step]

\* Variant: the guard of line 43 written with < instead of <=
build_concentric_fill_strict(p, inner_radius, outer_radius, z_height, err) ==
    IF outer_radius - inner_radius < Fine(p.concentric_pitch_mm)
    THEN None
    ELSE LET radii == np_arange(inner_radius, outer_radius,
                                Fine(p.concentric_pitch_mm), err)
             paths == [k \in 1..Len(radii) |-> RingPath(p, radii[k], z_height)]
         IN  IF paths # <<>> THEN PathList(paths) ELSE None

build_concentric_fill(p, inner_radius, outer_radius, z_height, err) ==
    IF FloatDiffLE(outer_radius - inner_radius, Fine(p.concentric_pitch_mm),
                   err)
    THEN None
    ELSE LET radii == np_arange(inner_radius, outer_radius,
                                Fine(p.concentric_pitch_mm), err)
             paths == [k \in 1..Len(radii) |-> RingPath(p, radii[k], z_height)]
         IN  IF paths # <<>> THEN PathList(paths) ELSE None

(* --------------------------- build_wave_tray --------------------------- *)
\* Variant: the clearance is left out of the inner radius
InnerRadiusNoClearance(p) == Fine(p.hole_radius_mm)

\* lines 112-113
InnerRadius(p) == Fine(p.hole_radius_mm + p.concentric_clearance_mm)

OuterRadius(p, wave_min) == wave_min - Fine(p.concentric_clearance_mm)

\* Variant: the tags of the cross-hatch infill (z_hop = True)
TagFillZHop(concentric) ==
    [kind |-> concentric.kind, paths |-> concentric.paths,
     z_hop |-> TRUE, retraction |-> FALSE]

\* lines 121-122: concentric.z_hop = False; concentric.retraction = False
TagFill(concentric) ==
    [kind |-> concentric.kind, paths |-> concentric.paths,
     z_hop |-> FALSE, retraction |-> FALSE]

\* lines 120-123: what the fill result adds to tray_paths
FillEntries(concentric) ==
    IF concentric # None THEN <<TagFill(concentric)>> ELSE <<>>

\* Variant: the inner offset is appended before the hole wall
HoleEntriesOffsetFirst(p, i, wave_min, err) ==
    LET hole_path == HolePath(p, i)
        inner_hole == TransformOffset(hole_path, -p.hole_offset_mm)
        concentric == build_concentric_fill(p, InnerRadius(p),
                          OuterRadius(p, wave_min),
                          p.layer_height_mm * (i + 1), err)
    IN  <<inner_hole, hole_path>> \o FillEntries(concentric)

\* Variant: the append of line 109 is missing
HoleEntriesNoOffset(p, i, wave_min, err) ==
    LET hole_path == HolePath(p, i)
        concentric == build_concentric_fill(p, InnerRadius(p),
                          OuterRadius(p, wave_min),
                          p.layer_height_mm * (i + 1), err)
    IN  <<hole_path>> \o FillEntries(concentric)

\* lines 95-123: what a layer below hole_layer_limit adds after its wall
HoleEntries(p, i, wave_min, err) ==
    LET hole_path == HolePath(p, i)
        inner_hole == TransformOffset(hole_path, -p.hole_offset_mm)
        concentric == build_concentric_fill(p, InnerRadius(p),
                          OuterRadius(p, wave_min),
                          p.layer_height_mm * (i + 1), err)
    IN  <<hole_path, inner_hole>> \o FillEntries(concentric)

\* np.linspace(0, 2*pi, num) raises ValueError for num < 0 (lines 69-70)
LinspaceRaises(p) == p.wave_sample_count < 0 \/ p.hole_sample_count < 0

\* The signs the difference between the double quotient
\* (outer_radius - inner_radius) / pitch and the whole number nearest to it
\* can have, for the array minimum array_min
QuotientErrsOf(p, array_min) ==
    IF OnWholePitches(OuterRadius(p, array_min) - InnerRadius(p),
                      Fine(p.concentric_pitch_mm))
    THEN {-1, 0, 1}
    ELSE {0}

\* The same for layer i of a call (a call that never reaches line 113 has
\* no quotient)
QuotientErrs(p, i) ==
    IF LinspaceRaises(p)
    THEN {0}
    ELSE Only({QuotientErrsOf(p, m) : m \in {WaveRadiusArrayMin(p, i)}})

\* Variant: the limit is taken one layer too early
IsHoleLayerOffByOne(p, i) == i + 1 < p.hole_layer_limit

\* line 95
IsHoleLayer(p, i) == i < p.hole_layer_limit

\* lines 75-123: everything one loop iteration appends, in order
\* (array_min is the minimum of the wave_radius of lines 82-87, which line
\* 113 takes as a float)
LayerEntries(p, i, array_min, qerr) ==
    <<WavePath(p, i, array_min)>> \o
    (IF IsHoleLayer(p, i)
     THEN HoleEntries(p, i, array_min, qerr[i])
     ELSE <<>>)

(* ------------------------------- state --------------------------------- *)
Init ==
    /\ params \in ParamSets
    /\ \E errs \in {[i \in HoleLayers(params) |-> QuotientErrs(params, i)]} :
           quotient_err \in
               {f \in [HoleLayers(params) -> {-1, 0, 1}] :
                    \A i \in HoleLayers(params) : f[i] \in errs[i]}
    /\ pc = "idle"
    /\ layer_index = 0
    /\ tray_paths = <<>>
    /\ calls = 0
    /\ results = <<>>

\* Variant: the list of line 67 is shared between calls
CallReusesList ==
    /\ pc \in {"idle", "done"}
    /\ calls < MaxCalls
    /\ calls' = calls + 1
    /\ tray_paths' = tray_paths
    /\ layer_index' = 0
    /\ pc' = IF LinspaceRaises(params) THEN "raised" ELSE "loop"
    /\ UNCHANGED <<params, quotient_err, results>>

\* A call of build_wave_tray(params): lines 67-72
Call ==
    /\ pc \in {"idle", "done"}
    /\ calls < MaxCalls
    /\ calls' = calls + 1
    /\ tray_paths' = <<>>
    /\ layer_index' = 0
    /\ pc' = IF LinspaceRaises(params) THEN "raised" ELSE "loop"
    /\ UNCHANGED <<params, quotient_err, results>>

\* Variant: a layer without a fill group ends the loop (break)
LayerStepStopsOnNarrow ==
    /\ pc = "loop"
    /\ layer_index \in Range(params.layer_count)
    /\ \E array_min \in {WaveRadiusArrayMin(params, layer_index)} :
           LET entries == LayerEntries(params, layer_index, array_min,
                                       quotient_err)
           IN  /\ tray_paths' = tray_paths \o entries
               /\ layer_index' = IF Len(entries) = 3
                                 THEN params.layer_count
                                 ELSE layer_index + 1
    /\ UNCHANGED <<params, quotient_err, pc, calls, results>>

\* One iteration of the loop of line 74; the wave radius of the layer is
\* computed once (lines 82-87) and serves the wall and the fill
LayerStep ==
    /\ pc = "loop"
    /\ layer_index \in Range(params.layer_count)
    /\ \E array_min \in {WaveRadiusArrayMin(params, layer_index)} :
           tray_paths' = tray_paths \o
               LayerEntries(params, layer_index, array_min, quotient_err)
    /\ layer_index' = layer_index + 1
    /\ UNCHANGED <<params, quotient_err, pc, calls, results>>

\* The loop is exhausted: return tray_paths (line 125)
Return ==
    /\ pc = "loop"
    /\ layer_index \notin Range(params.layer_count)
    /\ pc' = "done"
    /\ results' = Append(results, tray_paths)
    /\ UNCHANGED <<params, quotient_err, layer_index,
                   tray_paths, calls>>

Next == Call \/ LayerStep \/ Return

Spec == Init /\ [][Next]_vars

FairSpec == Spec /\ WF_vars(Next)

(* ===================== properties of the output ======================== *)
\* The layer an entry was generated on, read off its Z coordinates:
\* a wall starts at Z = i*h, every other entry lies at Z = h*(i+1).
RECURSIVE LayerOf(_)
LayerOf(e) ==
    LET h == params.layer_height_mm
    IN  CASE e.kind = "wall" -> e.z_bottom \div h
          [] e.kind = "hole" -> (e.z \div h) - 1
          [] e.kind = "offset" -> LayerOf(e.of)
          [] e.kind = "fill" -> (e.paths[1].z \div h) - 1

Kinds(seq) == [k \in 1..Len(seq) |-> seq[k].kind]

IsLayer(e, i) == LayerOf(e) = i

EntriesOfLayer(seq, i) == SelectSeq(seq, LAMBDA e : IsLayer(e, i))

IsWall(e) == e.kind = "wall"

IsFill(e) == e.kind = "fill"

IsHoleRelated(e) == e.kind \in {"hole", "offset", "fill"}

Walls(seq) == SelectSeq(seq, IsWall)

Fills(seq) == SelectSeq(seq, IsFill)

\* Layers whose iteration has completed in the current call
DoneLayers == IF pc \in {"loop", "done"} THEN Range(layer_index) ELSE {}

IsPrefix(s, t) == Len(s) <= Len(t) /\ SubSeq(t, 1, Len(s)) = s

KindRank(k) ==
    CASE k = "wall" -> 1 [] k = "hole" -> 2 [] k = "offset" -> 3 [] k = "fill" -> 4

\* The minimum radius of the wall of completed layer i
WallRadiusMin(i) == Walls(tray_paths)[i + 1].radius_min

\* The difference outer_radius - inner_radius of completed layer i
AnnulusWidth(i) ==
    (WallRadiusMin(i) - Fine(params.concentric_clearance_mm))
        - Fine(params.hole_radius_mm + params.concentric_clearance_mm)

\* The annulus of layer i is too narrow, as line 43 evaluates it
TooNarrow(i) ==
    FloatDiffLE(AnnulusWidth(i), Fine(params.concentric_pitch_mm),
                quotient_err[i])

(* ------------------------------- C1 ------------------------------------ *)
\* C1: the output is in strict layer order starting at layer 0, and inside
\* a layer the entries come in the order wall, hole wall, inner offset,
\* fill group: each entry either continues its layer with the next kind, or
\* is the wall of the next layer after a completed layer.
C1_LayerAndKindOrder ==
    /\ tray_paths # <<>> =>
           /\ tray_paths[1].kind = "wall"
           /\ LayerOf(tray_paths[1]) = 0
    /\ \A k \in 1..(Len(tray_paths) - 1) :
           LET a == tray_paths[k]
               b == tray_paths[k + 1]
           IN  \/ /\ LayerOf(b) = LayerOf(a)
                  /\ KindRank(b.kind) = KindRank(a.kind) + 1
               \/ /\ LayerOf(b) = LayerOf(a) + 1
                  /\ b.kind = "wall"
                  /\ a.kind \in {"wall", "offset", "fill"}
    /\ \A i \in DoneLayers :
           Kinds(EntriesOfLayer(tray_paths, i)) \in
               {<<"wall">>, <<"wall", "hole", "offset">>,
                <<"wall", "hole", "offset", "fill">>}

C1_Witness ==
    /\ pc = "done"
    /\ Kinds(tray_paths) = <<"wall", "hole", "offset", "fill", "wall">>

(* ------------------------------- C2 ------------------------------------ *)
\* C2: a completed layer i has exactly one hole wall and one inner offset
\* when i < hole_layer_limit, and no hole-related entry at all otherwise.
C2_HoleIffBelowLimit ==
    \A i \in DoneLayers :
        LET kinds == Kinds(EntriesOfLayer(tray_paths, i))
            Count(kind) == Cardinality({k \in 1..Len(kinds) : kinds[k] = kind})
        IN  IF i < params.hole_layer_limit
            THEN Count("hole") = 1 /\ Count("offset") = 1
            ELSE kinds = <<"wall">>

C2_Witness ==
    /\ pc = "done"
    /\ params.layer_count = 2
    /\ params.hole_layer_limit = 1
    /\ Len(tray_paths) >= 4

(* ------------------------------- C3 ------------------------------------ *)
\* C3: a completed hole layer whose annulus is no wider than the pitch has
\* exactly the entries wall, hole wall, inner offset (no fill, no error),
\* and the run still returns one wall for every layer.
C3_NarrowAnnulusNoFill ==
    /\ \A i \in DoneLayers :
           (i < params.hole_layer_limit /\ TooNarrow(i)) =>
               Kinds(EntriesOfLayer(tray_paths, i)) = <<"wall", "hole", "offset">>
    /\ (pc = "done" /\ params.layer_count >= 1) =>
           Len(Walls(tray_paths)) = params.layer_count

C3_Witness ==
    /\ pc = "done"
    /\ Kinds(tray_paths) =
           <<"wall", "hole", "offset", "wall", "hole", "offset", "fill">>
    /\ TooNarrow(0)

(* ------------------------------- C4 ------------------------------------ *)
\* C4: every fill group has as many rings as there are values
\* inner_radius + k*pitch strictly below outer_radius, and every ring radius
\* is at least inner_radius and strictly below outer_radius.
C4_RingCountAndRange ==
    \A j \in 1..Len(tray_paths) :
        tray_paths[j].kind = "fill" =>
            LET e == tray_paths[j]
                i == LayerOf(e)
                inner == Fine(params.hole_radius_mm
                                  + params.concentric_clearance_mm)
                outer == WallRadiusMin(i) - Fine(params.concentric_clearance_mm)
                pitch == Fine(params.concentric_pitch_mm)
                below == {k \in 0..Len(e.paths) : inner + k * pitch < outer}
            IN  /\ Len(e.paths) = Cardinality(below)
                /\ \A r \in 1..Len(e.paths) :
                       /\ e.paths[r].radius < outer
                       /\ e.paths[r].radius >= inner

(* ------------------------------- C5 ------------------------------------ *)
ConfigViolation(p) ==
    \/ p.layer_count <= 0
    \/ p.wave_sample_count <= 0
    \/ p.hole_sample_count <= 0
    \/ p.hole_radius_mm >= p.base_radius_mm

\* C5: with an invalid configuration no loop iteration runs and no call
\* returns a sequence.
C5_InvalidConfigRejected ==
    ConfigViolation(params) =>
        /\ pc # "done"
        /\ results = <<>>
        /\ layer_index = 0
        /\ tray_paths = <<>>

(* ------------------------------- C6 ------------------------------------ *)
\* C6: the defaults with layer_count = 1 and hole_layer_limit = 1 return
\* wall, hole wall, inner offset and, when there is one, the fill group.
C6_DefaultSingleLayer ==
    (params = WaveTrayParams(1, 1) /\ pc = "done") =>
        /\ Len(tray_paths) \in {3, 4}
        /\ Kinds(tray_paths) \in {<<"wall", "hole", "offset">>,
                                  <<"wall", "hole", "offset", "fill">>}
        /\ results[Len(results)] = tray_paths

C6_Witness ==
    /\ params = WaveTrayParams(1, 1)
    /\ pc = "done"
    /\ WallRadiusMin(0) = WaveRadiusArrayMin(params, 0)
    /\ Kinds(tray_paths) = <<"wall", "hole", "offset", "fill">>

(* ------------------------------- C7 ------------------------------------ *)
\* C7: every call with the same Parameters returns the same sequence as the
\* first call.
C7_SameParamsSameOutput ==
    \A r \in 1..Len(results) : results[r] = results[1]

C7_Witness ==
    /\ Len(results) = 2
    /\ Len(Fills(results[2])) = 2

(* ------------------------------- C8 ------------------------------------ *)
\* A step inside the loop advances layer_index by exactly one and appends
\* exactly one wall, the wall of that layer
C8_IterationAdvances ==
    (pc = "loop" /\ pc' = "loop") =>
        /\ layer_index' = layer_index + 1
        /\ Len(Walls(tray_paths')) = Len(Walls(tray_paths)) + 1
        /\ LayerOf(tray_paths'[Len(tray_paths) + 1]) = layer_index

C8_TerminalState ==
    (pc = "done" /\ params.layer_count >= 1) =>
        /\ layer_index = params.layer_count
        /\ LET walls == Walls(tray_paths)
           IN  /\ Len(walls) = params.layer_count
               /\ \A k \in 1..Len(walls) : LayerOf(walls[k]) = k - 1

\* C8: an iteration advances layer_index by exactly one and appends exactly
\* one wall, the wall of that layer; a call that entered the loop returns,
\* and it returns after layer_count iterations with one wall per layer,
\* also when a layer's annulus was too narrow.
C8_LoopRunsToTheEnd ==
    /\ [](pc = "loop" => layer_index \in 0..Max(params.layer_count, 0))
    /\ [][C8_IterationAdvances]_vars
    /\ []C8_TerminalState
    /\ (pc = "loop") ~> (pc = "done")

C8_Witness ==
    /\ pc = "done"
    /\ params.layer_count = 2
    /\ Kinds(tray_paths) = <<"wall", "hole", "offset", "wall", "hole", "offset">>

(* ------------------------------- C9 ------------------------------------ *)
C9_FillTags ==
    \A j \in 1..Len(tray_paths) :
        tray_paths[j].kind = "fill" =>
            /\ tray_paths[j].z_hop = FALSE
            /\ tray_paths[j].retraction = FALSE

C9_AppendOnly ==
    /\ calls' = calls => IsPrefix(tray_paths, tray_paths')
    /\ IsPrefix(results, results')

\* C9: every fill group in the output is tagged z_hop = false and
\* retraction = false, and a step of a run only appends: the entries
\* already in the output, tags included, stay as they are.
C9_FillTagsFrozen == []C9_FillTags /\ [][C9_AppendOnly]_vars

C9_Witness ==
    /\ pc = "done"
    /\ Len(Fills(tray_paths)) = 2
    /\ Len(tray_paths) = 8

(* ------------------------------- C10 ----------------------------------- *)
\* C10: every fill group in the output has at least two rings, starts at
\* hole_radius + clearance and steps by the pitch; a hole layer whose
\* annulus is wider than 0 but no wider than the pitch has no group.
C10_AtLeastTwoRings ==
    /\ \A j \in 1..Len(tray_paths) :
           tray_paths[j].kind = "fill" =>
               LET rings == tray_paths[j].paths
               IN  /\ Len(rings) >= 2
                   /\ rings[1].radius =
                          Fine(params.hole_radius_mm
                                   + params.concentric_clearance_mm)
                   /\ \A r \in 1..(Len(rings) - 1) :
                          rings[r + 1].radius - rings[r].radius =
                              Fine(params.concentric_pitch_mm)
    /\ \A i \in DoneLayers \cap HoleLayers(params) :
           (AnnulusWidth(i) > 0 /\ TooNarrow(i)) =>
               Fills(EntriesOfLayer(tray_paths, i)) = <<>>

C10_Witness ==
    /\ pc = "done"
    /\ params.hole_layer_limit >= 2
    /\ params.layer_count = 2
    /\ AnnulusWidth(0) > 0
    /\ TooNarrow(0)
    /\ Len(Fills(tray_paths)) = 1
    /\ Len(tray_paths[Len(tray_paths)].paths) = 2

====
